---- MODULE Spec2Model ----
(***************************************************************************)
(* Model of nfa_converter/automaton.py: the Automaton container, its type  *)
(* classifier, and the subset construction nfa_to_dfa with its helpers     *)
(* _nfa_moves, _epsilon_set_closure and _epsilon_closure.                  *)
(*                                                                         *)
(* Python objects that can be shared by reference (the sets and the dict   *)
(* an Automaton holds) live in `heap`, keyed by an object name; an         *)
(* Automaton is the record of the names its five fields are bound to.      *)
(* DFA state labels are modelled by their code points ("A" is 65), so      *)
(* chr(ord(mark) + 1) is mark + 1.                                         *)
(***************************************************************************)
EXTENDS Integers, Sequences, FiniteSets, TLC

VARIABLES heap, nfa, dfa, outcome, pc,
          dfa_states, dfa_transitions, unmarked_states, state_mark,
          puts, gets

vars == <<heap, nfa, dfa, outcome, pc,
          dfa_states, dfa_transitions, unmarked_states, state_mark,
          puts, gets>>

----------------------------------------------------------------------------
(* Bounds of the model and the inputs the client draws from.               *)

\* State identifiers the client may pass to the Automaton operations.
States == {"q0", "q1"}

\* The epsilon marker (the one-character string U+03B5 in the source,
\* written in ASCII here) and the symbols the client may use.
Epsilon == "eps"
Symbols == {"a", "b", Epsilon}

\* At most this many (from, symbol, to) triples are recorded by the client.
MaxTransitions == 2

\* Acceptance is compared on every word up to this length.
MaxWordLen == 3

\* Depth at which the interpreter refuses another nested call
\* (sys.getrecursionlimit(), 1000 by default); any value above the number
\* of states lets every acyclic epsilon chain through.
RecursionLimit == 5

\* ord("A"), the first label, and the largest argument chr() accepts.
OrdA == 65
MaxCodePoint == 1114111

----------------------------------------------------------------------------
(* Dictionaries are functions whose DOMAIN is the set of keys.             *)

EmptyDict == <<>>

DictSet(d, k, v) == IF k \in DOMAIN d THEN [d EXCEPT ![k] = v] ELSE d @@ (k :> v)

\* The number of (from, symbol, to) triples a transition table records.
RECURSIVE SumCard(_, _)
SumCard(f, keys) ==
    IF keys = {} THEN 0
    ELSE LET k == CHOOSE x \in keys : TRUE
         IN Cardinality(f[k]) + SumCard(f, keys \ {k})

RECURSIVE CountTriples(_, _)
CountTriples(t, keys) ==
    IF keys = {} THEN 0
    ELSE LET k == CHOOSE x \in keys : TRUE
         IN SumCard(t[k], DOMAIN t[k]) + CountTriples(t, keys \ {k})

----------------------------------------------------------------------------
(* class Automaton                                                         *)

\* Automaton.__init__: five fresh containers, named after the variable
\* that holds the automaton.
NewAutomaton(name) ==
    [_states       |-> name \o "._states",
     _start_states |-> name \o "._start_states",
     _final_states |-> name \o "._final_states",
     _transitions  |-> name \o "._transitions",
     _alphabet     |-> name \o "._alphabet"]

NewAutomatonHeap(name) ==
    LET a == NewAutomaton(name)
    IN (a._states :> {}) @@ (a._start_states :> {}) @@ (a._final_states :> {})
       @@ (a._transitions :> EmptyDict) @@ (a._alphabet :> {})

get_states(h, self) == h[self._states]
get_start_states(h, self) == h[self._start_states]
get_final_states(h, self) == h[self._final_states]
get_alphabet(h, self) == h[self._alphabet]
get_all_transitions(h, self) == h[self._transitions]

\* get_transitions_from never raises: a state without an entry in the
\* table, registered or not, yields the empty mapping.
get_transitions_from(h, self, state) ==
    IF state \notin DOMAIN h[self._transitions]
    THEN [raised |-> "none", ret |-> EmptyDict]
    ELSE [raised |-> "none", ret |-> h[self._transitions][state]]

\* get_type: eNFA as soon as some state has an epsilon entry, else NFA when
\* some (state, symbol) has two or more destinations, else DFA.
get_type(h, self) ==
    LET t == get_all_transitions(h, self)
    IN IF \E src \in DOMAIN t : Epsilon \in DOMAIN t[src] THEN "eNFA"
       ELSE IF \E src \in DOMAIN t : \E symbol \in DOMAIN t[src] :
                  Cardinality(t[src][symbol]) >= 2
            THEN "NFA" ELSE "DFA"

\* A call's result: the exception it raised ("none" when it returned), the
\* heap and the automaton's field bindings it leaves behind.
Result(raised, h, self) == [raised |-> raised, heap |-> h, self |-> self]

add_state(h, self, state) ==
    IF state \in h[self._states]
    THEN Result("StateAlreadyExists", h, self)
    ELSE Result("none", [h EXCEPT ![self._states] = @ \cup {state}], self)

\* add_transition raises when either end point is unregistered, else adds
\* to_state to the destinations of (from_state, symbol), creating the
\* entries on the way.  Its variant below lacks the two membership tests
\* and registers the end points on the fly.
add_transition_AutoRegister(h, self, from_state, to_state, symbol) ==
    LET h1 == [h EXCEPT ![self._states] = @ \cup {from_state, to_state}]
        t  == h[self._transitions]
        t1 == IF from_state \in DOMAIN t THEN t ELSE DictSet(t, from_state, EmptyDict)
        t2 == IF symbol \in DOMAIN t1[from_state] THEN t1
              ELSE [t1 EXCEPT ![from_state] = DictSet(@, symbol, {})]
        t3 == [t2 EXCEPT ![from_state][symbol] = @ \cup {to_state}]
    IN Result("none", [h1 EXCEPT ![self._transitions] = t3], self)

add_transition(h, self, from_state, to_state, symbol) ==
    IF from_state \notin h[self._states] THEN Result("StateNotFoundError", h, self)
    ELSE IF to_state \notin h[self._states] THEN Result("StateNotFoundError", h, self)
    ELSE LET t  == h[self._transitions]
             t1 == IF from_state \in DOMAIN t THEN t
                   ELSE DictSet(t, from_state, EmptyDict)
             t2 == IF symbol \in DOMAIN t1[from_state] THEN t1
                   ELSE [t1 EXCEPT ![from_state] = DictSet(@, symbol, {})]
             t3 == [t2 EXCEPT ![from_state][symbol] = @ \cup {to_state}]
         IN Result("none", [h EXCEPT ![self._transitions] = t3], self)

\* set_start_states adds the given states one by one, in the set's
\* iteration order, and raises at the first unregistered one: the states
\* added before it stay.  Every iteration order is a possible outcome.
set_start_states(h, self, states) ==
    IF states \subseteq h[self._states]
    THEN {Result("none", [h EXCEPT ![self._start_states] = @ \cup states], self)}
    ELSE {Result("StateNotFoundError",
                 [h EXCEPT ![self._start_states] = @ \cup added], self) :
             added \in SUBSET (states \cap h[self._states])}

\* set_final_states validates every state, then binds _final_states to the
\* caller's set object `ref` (whose content is `states`).
set_final_states(h, self, ref, states) ==
    IF ~(states \subseteq h[self._states])
    THEN Result("StateNotFoundError", h, self)
    ELSE Result("none", DictSet(h, ref, states), [self EXCEPT !._final_states = ref])

\* set_alphabet binds _alphabet to the caller's set object, unvalidated.
set_alphabet(h, self, ref, alphabet) ==
    Result("none", DictSet(h, ref, alphabet), [self EXCEPT !._alphabet = ref])

\* The objects an automaton's fields are bound to.
Refs(self) ==
    {self._states, self._start_states, self._final_states,
     self._transitions, self._alphabet}

\* Objects nothing refers to any more are reclaimed.
Collect(h, live) == [r \in (DOMAIN h) \cap live |-> h[r]]

----------------------------------------------------------------------------
(* The helpers of the conversion.  A helper that recurses answers          *)
(* [err |-> TRUE] when the nesting passes RecursionLimit (RecursionError), *)
(* else [err |-> FALSE, val |-> its value].                                *)

Ok(v) == [err |-> FALSE, val |-> v]
RecursionError == [err |-> TRUE, val |-> {}]

\* _nfa_moves taking the moves of one of the states only.
_nfa_moves_OneState(h, a, from_states, symbol) ==
    IF from_states = {} THEN {}
    ELSE LET state == CHOOSE x \in from_states : TRUE
         IN IF symbol \in DOMAIN get_transitions_from(h, a, state).ret
            THEN get_transitions_from(h, a, state).ret[symbol]
            ELSE {}

\* _nfa_moves: the union, over the given states, of the destinations
\* recorded for the symbol.
_nfa_moves(h, a, from_states, symbol) ==
    UNION {IF symbol \in DOMAIN get_transitions_from(h, a, state).ret
           THEN get_transitions_from(h, a, state).ret[symbol]
           ELSE {} : state \in from_states}

\* _epsilon_closure: the state itself, plus the closure of every epsilon
\* destination, computed by a nested call per destination with no record of
\* the states already visited.
RECURSIVE _epsilon_closure(_, _, _, _)
RECURSIVE ClosureOfEach(_, _, _, _)
ClosureOfEach(h, a, dsts, depth) ==
    IF dsts = {} THEN Ok({})
    ELSE LET dst  == CHOOSE d \in dsts : TRUE
             sub  == _epsilon_closure(h, a, dst, depth)
             rest == ClosureOfEach(h, a, dsts \ {dst}, depth)
         IN IF sub.err THEN RecursionError
            ELSE IF rest.err THEN RecursionError
            ELSE Ok(sub.val \cup rest.val)

\* _epsilon_closure that forgets the state itself when it has epsilon moves.
_epsilon_closure_NotReflexive(h, a, state, depth) ==
    IF depth > RecursionLimit THEN RecursionError
    ELSE LET tf == get_transitions_from(h, a, state).ret
         IN IF Epsilon \in DOMAIN tf
            THEN ClosureOfEach(h, a, tf[Epsilon], depth + 1)
            ELSE Ok({state})

_epsilon_closure(h, a, state, depth) ==
    IF depth > RecursionLimit THEN RecursionError
    ELSE LET tf == get_transitions_from(h, a, state).ret
         IN IF Epsilon \in DOMAIN tf
            THEN LET r == ClosureOfEach(h, a, tf[Epsilon], depth + 1)
                 IN IF r.err THEN RecursionError ELSE Ok({state} \cup r.val)
            ELSE Ok({state})

\* _epsilon_set_closure: the union of the closures of the given states.
_epsilon_set_closure(h, a, from_states) == ClosureOfEach(h, a, from_states, 1)

----------------------------------------------------------------------------
(* State after construction: the client holds one empty Automaton and has  *)
(* not called the converter.                                               *)

None == "None"
NoAutomaton ==
    [_states |-> None, _start_states |-> None, _final_states |-> None,
     _transitions |-> None, _alphabet |-> None]

\* What the last call handed back: the exception raised ("none" when the
\* call returned) and, for get_transitions_from(query), the mapping
\* returned; query is None for every other call.
Outcome(query, raised, ret) == [query |-> query, raised |-> raised, ret |-> ret]

Init ==
    /\ nfa = NewAutomaton("nfa")
    /\ heap = NewAutomatonHeap("nfa")
    /\ dfa = NoAutomaton
    /\ outcome = Outcome(None, "none", EmptyDict)
    /\ pc = "build"
    /\ dfa_states = EmptyDict
    /\ dfa_transitions = EmptyDict
    /\ unmarked_states = <<>>
    /\ state_mark = OrdA
    /\ puts = EmptyDict
    /\ gets = EmptyDict

ConverterIdle ==
    UNCHANGED <<dfa, pc, dfa_states, dfa_transitions, unmarked_states,
                state_mark, puts, gets>>

\* The client's call leaves `r` behind.
Leave(r, ret) ==
    /\ heap' = Collect(r.heap, Refs(r.self))
    /\ nfa' = r.self
    /\ outcome' = Outcome(None, r.raised, ret)
    /\ ConverterIdle

----------------------------------------------------------------------------
(* The client's calls on its automaton.                                    *)

CallAddState(state) ==
    /\ pc = "build"
    /\ Leave(add_state(heap, nfa, state), EmptyDict)

CallAddTransition(from_state, to_state, symbol) ==
    /\ pc = "build"
    /\ LET r == add_transition(heap, nfa, from_state, to_state, symbol)
           t == r.heap[r.self._transitions]
       IN /\ CountTriples(t, DOMAIN t) <= MaxTransitions
          /\ Leave(r, EmptyDict)

CallSetStartStates(states) ==
    /\ pc = "build"
    /\ \E r \in set_start_states(heap, nfa, states) : Leave(r, EmptyDict)

CallSetFinalStates(states) ==
    /\ pc = "build"
    /\ Leave(set_final_states(heap, nfa, "arg.final_states", states), EmptyDict)

CallSetAlphabet(alphabet) ==
    /\ pc = "build"
    /\ Leave(set_alphabet(heap, nfa, "arg.alphabet", alphabet), EmptyDict)

CallGetTransitionsFrom(state) ==
    /\ pc = "build"
    /\ LET r == get_transitions_from(heap, nfa, state)
       IN outcome' = Outcome(state, r.raised, r.ret)
    /\ UNCHANGED <<heap, nfa>>
    /\ ConverterIdle

----------------------------------------------------------------------------
(* nfa_to_dfa                                                              *)

\* new_alphabet bound to the source's alphabet object instead of a new set.
new_alphabet_obj_Aliased == nfa._alphabet

\* The objects the locals new_alphabet and final_states are bound to: each
\* is a fresh set().
new_alphabet_obj == "new_alphabet"
final_states_obj == "final_states"

\* The membership test dropped: every subset counts as new.
Unseen_Always(next_dfa_state, known) == TRUE

\* `next_dfa_state not in dfa_states`: subsets are dictionary keys, compared
\* as frozensets.
Unseen(next_dfa_state, known) == next_dfa_state \notin DOMAIN known

\* Final only when every state of the subset is final.
IsFinal_All(h, a, dfa_state) ==
    \A nfa_state \in dfa_state : nfa_state \in get_final_states(h, a)

\* A subset is final when one of its states is final in the source.
IsFinal(h, a, dfa_state) ==
    \E nfa_state \in dfa_state : nfa_state \in get_final_states(h, a)

\* The orders in which a set may be iterated.
Orderings(S) ==
    {f \in [1..Cardinality(S) -> S] :
        \A i, j \in 1..Cardinality(S) : i # j => f[i] # f[j]}

\* The body of `for symbol in nfa.get_alphabet()` for the symbols
\* order[i..], on the locals `loc`; an exception ends the loop.
RECURSIVE ForSymbols(_, _, _, _, _, _)
ForSymbols(h, a, current_dfa_state, order, i, loc) ==
    IF i > Len(order) \/ loc.exc # "none" THEN loc
    ELSE LET symbol == order[i]
             c == _epsilon_set_closure(h, a,
                      _nfa_moves(h, a, current_dfa_state, symbol))
             next_dfa_state == c.val
             fresh == Unseen(next_dfa_state, loc.dfa_states)
             mark == IF fresh THEN loc.state_mark + 1 ELSE loc.state_mark
             loc1 == IF ~fresh THEN loc
                     ELSE [loc EXCEPT
                              !.state_mark = mark,
                              !.dfa_states = DictSet(@, next_dfa_state, mark),
                              !.queue = Append(@, next_dfa_state),
                              !.puts = DictSet(@, next_dfa_state,
                                          IF next_dfa_state \in DOMAIN @
                                          THEN @[next_dfa_state] + 1 ELSE 1)]
             loc2 == [loc1 EXCEPT
                         !.row = DictSet(@, symbol, next_dfa_state),
                         !.new_alphabet = @ \cup {symbol}]
         IN IF c.err THEN [loc EXCEPT !.exc = "RecursionError"]
            ELSE IF Cardinality(next_dfa_state) > 0
            THEN IF fresh /\ mark > MaxCodePoint
                 THEN [loc EXCEPT !.exc = "ValueError"]
                 ELSE ForSymbols(h, a, current_dfa_state, order, i + 1, loc2)
            ELSE ForSymbols(h, a, current_dfa_state, order, i + 1, loc)

\* Lines 182-191: the start subset gets the mark "A" and is queued.
NfaToDfaStart ==
    /\ pc = "build"
    /\ LET c == _epsilon_set_closure(heap, nfa, get_start_states(heap, nfa))
           eps_closure_start == c.val
       IN IF c.err
          THEN /\ pc' = "RecursionError"
               /\ outcome' = Outcome(None, "RecursionError", EmptyDict)
               /\ UNCHANGED <<heap, dfa_states, unmarked_states, puts>>
          ELSE /\ pc' = "loop"
               /\ outcome' = Outcome(None, "none", EmptyDict)
               /\ dfa_states' = DictSet(EmptyDict, eps_closure_start, OrdA)
               /\ unmarked_states' = <<eps_closure_start>>
               /\ puts' = DictSet(EmptyDict, eps_closure_start, 1)
               /\ heap' = DictSet(heap, new_alphabet_obj, {})
    /\ state_mark' = OrdA
    /\ UNCHANGED <<nfa, dfa, dfa_transitions, gets>>

\* Lines 192-203: one pass of the while loop, for the subset at the head of
\* the queue, over the alphabet in some iteration order.
WhileIteration ==
    /\ pc = "loop"
    /\ unmarked_states # <<>>
    /\ \E order \in Orderings(get_alphabet(heap, nfa)) :
          LET current_dfa_state == Head(unmarked_states)
              loc0 == [dfa_states   |-> dfa_states,
                       row          |-> EmptyDict,
                       queue        |-> Tail(unmarked_states),
                       state_mark   |-> state_mark,
                       new_alphabet |-> heap[new_alphabet_obj],
                       puts         |-> puts,
                       exc          |-> "none"]
              loc == ForSymbols(heap, nfa, current_dfa_state, order, 1, loc0)
          IN /\ dfa_states' = loc.dfa_states
             /\ dfa_transitions' = DictSet(dfa_transitions, current_dfa_state, loc.row)
             /\ unmarked_states' = loc.queue
             /\ state_mark' = loc.state_mark
             /\ puts' = loc.puts
             /\ gets' = DictSet(gets, current_dfa_state,
                           IF current_dfa_state \in DOMAIN gets
                           THEN gets[current_dfa_state] + 1 ELSE 1)
             /\ heap' = [heap EXCEPT ![new_alphabet_obj] = loc.new_alphabet]
             /\ pc' = IF loc.exc = "none" THEN "loop" ELSE loc.exc
             /\ outcome' = Outcome(None, loc.exc, EmptyDict)
    /\ UNCHANGED <<nfa, dfa>>

\* Lines 207-216: every subset's mark becomes a state of the DFA, and is
\* collected in final_states when the subset is final.
RECURSIVE AddStates(_, _, _, _, _)
AddStates(h, a, d, marks, todo) ==
    IF todo = {} THEN Result("none", h, d)
    ELSE LET dfa_state == CHOOSE x \in todo : TRUE
             r  == add_state(h, d, marks[dfa_state])
             h1 == IF IsFinal(h, a, dfa_state)
                   THEN [r.heap EXCEPT ![final_states_obj] = @ \cup {marks[dfa_state]}]
                   ELSE r.heap
         IN IF r.raised # "none" THEN r
            ELSE AddStates(h1, a, d, marks, todo \ {dfa_state})

\* Lines 218-222: one add_transition per recorded (subset, symbol, subset).
RECURSIVE AddTransitions(_, _, _)
AddTransitions(h, d, todo) ==
    IF todo = {} THEN Result("none", h, d)
    ELSE LET t == CHOOSE x \in todo : TRUE
             r == add_transition(h, d, t[1], t[2], t[3])
         IN IF r.raised # "none" THEN r
            ELSE AddTransitions(r.heap, d, todo \ {t})

\* Lines 205-228 on heap h: the possible results of assembling the DFA.
AssembleDfa(h, a, marks, table) ==
    LET d  == NewAutomaton("dfa")
        h0 == DictSet(h @@ NewAutomatonHeap("dfa"), final_states_obj, {})
        r1 == AddStates(h0, a, d, marks, DOMAIN marks)
        missing == \E s \in DOMAIN marks :
                      \/ s \notin DOMAIN table
                      \/ \E symbol \in DOMAIN table[s] :
                            table[s][symbol] \notin DOMAIN marks
        r2 == AddTransitions(r1.heap, d,
                 {<<marks[s[1]], marks[table[s[1]][s[2]]], s[2]>> :
                     s \in {x \in (DOMAIN marks) \X Symbols :
                               x[2] \in DOMAIN table[x[1]]}})
    IN IF r1.raised # "none" THEN {r1}
       ELSE IF missing THEN {Result("KeyError", r1.heap, d)}
       ELSE IF r2.raised # "none" THEN {r2}
       ELSE UNION {
              LET r4 == set_final_states(r3.heap, r3.self, final_states_obj,
                                         r3.heap[final_states_obj])
                  r5 == set_alphabet(r4.heap, r4.self, new_alphabet_obj,
                                     r4.heap[new_alphabet_obj])
              IN IF r3.raised # "none" THEN {r3}
                 ELSE IF r4.raised # "none" THEN {r4}
                 ELSE {r5}
              : r3 \in set_start_states(r2.heap, d, {OrdA})}

\* Lines 205-228: the queue is empty, the DFA is assembled and returned.
BuildDfa ==
    /\ pc = "loop"
    /\ unmarked_states = <<>>
    /\ \E r \in AssembleDfa(heap, nfa, dfa_states, dfa_transitions) :
          IF r.raised = "none"
          THEN /\ pc' = "done"
               /\ dfa' = r.self
               /\ heap' = Collect(r.heap, Refs(nfa) \cup Refs(r.self))
               /\ outcome' = Outcome(None, "none", EmptyDict)
          ELSE /\ pc' = r.raised
               /\ dfa' = NoAutomaton
               /\ heap' = Collect(r.heap, Refs(nfa))
               /\ outcome' = Outcome(None, r.raised, EmptyDict)
    /\ UNCHANGED <<nfa, dfa_states, dfa_transitions, unmarked_states,
                   state_mark, puts, gets>>

----------------------------------------------------------------------------

Next ==
    \/ \E state \in States : CallAddState(state)
    \/ \E from_state, to_state \in States, symbol \in Symbols :
          CallAddTransition(from_state, to_state, symbol)
    \/ \E states \in SUBSET States : CallSetStartStates(states)
    \/ \E states \in SUBSET States : CallSetFinalStates(states)
    \/ \E alphabet \in SUBSET Symbols : CallSetAlphabet(alphabet)
    \/ \E state \in States : CallGetTransitionsFrom(state)
    \/ NfaToDfaStart
    \/ WhileIteration
    \/ BuildDfa

Spec == Init /\ [][Next]_vars

----------------------------------------------------------------------------
(* Reference semantics the properties are stated in: epsilon reachability  *)
(* as a least fixed point, and acceptance of a word by an automaton.       *)

EpsStep(t, S) ==
    S \cup UNION {t[s][Epsilon] :
                    s \in {x \in S \cap DOMAIN t : Epsilon \in DOMAIN t[x]}}

RECURSIVE EpsReach(_, _)
EpsReach(t, S) == IF EpsStep(t, S) = S THEN S ELSE EpsReach(t, EpsStep(t, S))

SymStep(t, S, symbol) ==
    UNION {t[s][symbol] : s \in {x \in S \cap DOMAIN t : symbol \in DOMAIN t[x]}}

RECURSIVE RunFrom(_, _, _)
RunFrom(t, S, w) ==
    IF w = <<>> THEN EpsReach(t, S)
    ELSE RunFrom(t, SymStep(t, EpsReach(t, S), Head(w)), Tail(w))

Accepts(h, a, w) ==
    RunFrom(get_all_transitions(h, a), get_start_states(h, a), w)
        \cap get_final_states(h, a) # {}

Words(alphabet, n) == UNION {[1..k -> alphabet] : k \in 0..n}

\* The subsets the construction can reach from the start closure.
SubsetStep(t, alphabet, known) ==
    known \cup ({EpsReach(t, SymStep(t, S, symbol)) : S \in known, symbol \in alphabet}
                   \ {{}})

RECURSIVE SubsetClosure(_, _, _)
SubsetClosure(t, alphabet, known) ==
    IF (SubsetStep(t, alphabet, known) \ known) = {} THEN known
    ELSE SubsetClosure(t, alphabet, known \cup SubsetStep(t, alphabet, known))

ReachableSubsets(h, a) ==
    SubsetClosure(get_all_transitions(h, a), get_alphabet(h, a),
                  {EpsReach(get_all_transitions(h, a), get_start_states(h, a))})

HasEpsilonCycle(t) ==
    \E s \in DOMAIN t : s \in EpsReach(t, SymStep(t, {s}, Epsilon))

Returned == pc = "done"
Ended == pc \notin {"build", "loop"}

\* What the source automaton holds: its bindings and the objects bound.
Source == <<nfa, get_states(heap, nfa), get_start_states(heap, nfa),
            get_final_states(heap, nfa), get_alphabet(heap, nfa),
            get_all_transitions(heap, nfa)>>

----------------------------------------------------------------------------
(* C1: for every source automaton, epsilon cycles included, the closure    *)
(* and the conversion terminate and return: a call of nfa_to_dfa that has  *)
(* ended has returned the DFA, and was not aborted by the nesting of       *)
(* _epsilon_closure calls growing past the interpreter's limit.            *)
C1_ConversionReturns == Ended => Returned

\* The only exception that ends a conversion is RecursionError, and it is
\* raised only for a source with a cycle of epsilon transitions.
RecursionErrorOnlyOnCycle ==
    (Ended /\ ~Returned) =>
        /\ pc = "RecursionError"
        /\ HasEpsilonCycle(get_all_transitions(heap, nfa))

----------------------------------------------------------------------------
(* C2: whenever nfa_to_dfa has returned, the source automaton and the      *)
(* returned one, run from its start state "A", accept the same words over  *)
(* the source alphabet.                                                    *)
C2_LanguageEquivalence ==
    Returned =>
        /\ get_start_states(heap, dfa) = {OrdA}
        /\ \A w \in Words(get_alphabet(heap, nfa), MaxWordLen) :
              Accepts(heap, nfa, w) <=> Accepts(heap, dfa, w)

\* A returned conversion of an epsilon-NFA with two start states, whose
\* language holds a word of two letters and misses another word.
C2_Witness ==
    /\ Returned
    /\ get_type(heap, nfa) = "eNFA"
    /\ Cardinality(get_start_states(heap, nfa)) = 2
    /\ \E w \in Words(get_alphabet(heap, nfa), MaxWordLen) :
          Len(w) >= 2 /\ Accepts(heap, nfa, w)
    /\ \E w \in Words(get_alphabet(heap, nfa), MaxWordLen) : ~Accepts(heap, nfa, w)

----------------------------------------------------------------------------
(* C3: the automaton nfa_to_dfa returns is classified DFA: no transition   *)
(* of it is labelled epsilon and every (state, symbol) has at most one     *)
(* destination.                                                            *)
C3_OutputIsDfa ==
    Returned =>
        /\ get_type(heap, dfa) = "DFA"
        /\ \A q \in DOMAIN get_all_transitions(heap, dfa) :
              /\ Epsilon \notin DOMAIN get_all_transitions(heap, dfa)[q]
              /\ \A symbol \in DOMAIN get_all_transitions(heap, dfa)[q] :
                    Cardinality(get_all_transitions(heap, dfa)[q][symbol]) <= 1

----------------------------------------------------------------------------
(* C4: nfa_to_dfa leaves the source automaton as it was (every step of the *)
(* conversion keeps its bindings and the content of its five containers),  *)
(* and the automaton returned is bound to no object of the source.         *)
C4_SourceUnchanged ==
    [][pc' # "build" =>
          /\ Source' = Source
          /\ (pc' = "done" => Refs(dfa') \cap Refs(nfa') = {})]_vars

\* A conversion has returned a DFA with final states, symbols and
\* transitions, from a source with final states and a nonempty alphabet.
C4_Witness ==
    /\ Returned
    /\ get_final_states(heap, nfa) # {}
    /\ get_alphabet(heap, nfa) # {}
    /\ get_final_states(heap, dfa) # {}
    /\ get_alphabet(heap, dfa) # {}
    /\ get_all_transitions(heap, dfa) # EmptyDict

----------------------------------------------------------------------------
(* C5: get_transitions_from(state) raises StateNotFoundError when state is *)
(* not registered, and for a registered state returns its mapping, empty   *)
(* when it has no outgoing transition.                                     *)
C5_UnknownStateRaises ==
    outcome.query # None =>
        IF outcome.query \notin get_states(heap, nfa)
        THEN outcome.raised = "StateNotFoundError"
        ELSE /\ outcome.raised = "none"
             /\ outcome.ret =
                   IF outcome.query \in DOMAIN get_all_transitions(heap, nfa)
                   THEN get_all_transitions(heap, nfa)[outcome.query]
                   ELSE EmptyDict

----------------------------------------------------------------------------
\* Every state the automaton refers to is one of its states.
ReferencesRegistered ==
    LET t == get_all_transitions(heap, nfa)
        Q == get_states(heap, nfa)
    IN /\ get_start_states(heap, nfa) \subseteq Q
       /\ get_final_states(heap, nfa) \subseteq Q
       /\ DOMAIN t \subseteq Q
       /\ \A s \in DOMAIN t : \A symbol \in DOMAIN t[s] : t[s][symbol] \subseteq Q

\* The step raised StateNotFoundError and left the state set as it was.
RaisedAndRegisteredNothing ==
    /\ outcome'.raised = "StateNotFoundError"
    /\ get_states(heap', nfa') = get_states(heap, nfa)

(* C6: after any sequence of client calls, raising or not, the start       *)
(* states, the final states and both ends of every recorded transition     *)
(* are registered states; a call naming an unregistered state raises       *)
(* StateNotFoundError and registers nothing.                               *)
C6_ReferencesRegistered ==
    /\ ReferencesRegistered
    /\ [][/\ ReferencesRegistered'
          /\ \A from_state, to_state \in States, symbol \in Symbols :
                (/\ ~({from_state, to_state} \subseteq get_states(heap, nfa))
                 /\ CallAddTransition(from_state, to_state, symbol))
                   => RaisedAndRegisteredNothing
          /\ \A states \in SUBSET States :
                (/\ ~(states \subseteq get_states(heap, nfa))
                 /\ CallSetStartStates(states) \/ CallSetFinalStates(states))
                   => RaisedAndRegisteredNothing]_vars

\* A call has just raised StateNotFoundError on an automaton that holds
\* start states, final states and a transition, with a state unregistered.
C6_Witness ==
    /\ pc = "build"
    /\ outcome.raised = "StateNotFoundError"
    /\ get_states(heap, nfa) # States
    /\ get_start_states(heap, nfa) # {}
    /\ get_final_states(heap, nfa) # {}
    /\ get_all_transitions(heap, nfa) # EmptyDict

----------------------------------------------------------------------------
(* C7: the alphabet of an Automaton never holds the epsilon marker, neither *)
(* the client's automaton after any of its calls nor a returned DFA.       *)
C7_AlphabetWithoutEpsilon ==
    /\ Epsilon \notin get_alphabet(heap, nfa)
    /\ Returned => Epsilon \notin get_alphabet(heap, dfa)

----------------------------------------------------------------------------
----------------------------------------------------------------------------
\* The states of the returned automaton reachable from its start states.
RECURSIVE Reach(_, _)
Reach(t, S) ==
    LET next == S \cup UNION {UNION {t[q][symbol] : symbol \in DOMAIN t[q]} :
                                 q \in S \cap DOMAIN t}
    IN IF next = S THEN S ELSE Reach(t, next)

DfaReachableStates ==
    Reach(get_all_transitions(heap, dfa), get_start_states(heap, dfa))

NoStartState == get_start_states(heap, nfa) = {}

(* C9 as stated: with no start state nfa_to_dfa raises nothing and returns *)
(* a DFA with no reachable state and an empty language.                    *)
C9_NoReachableState ==
    (Ended /\ NoStartState) =>
        /\ Returned
        /\ DfaReachableStates = {}
        /\ \A w \in Words(Symbols, MaxWordLen) : ~Accepts(heap, dfa, w)

(* C9 as amended: with no start state nfa_to_dfa raises nothing and        *)
(* returns a DFA whose only state is its start state "A", which stands for *)
(* the empty subset and is not final; it has no transition and an empty    *)
(* alphabet, and accepts no word, the empty word included.                 *)
C9_OnlyDeadStartState ==
    (pc # "build" /\ NoStartState) =>
        /\ pc \in {"loop", "done"}
        /\ Returned =>
              /\ get_states(heap, dfa) = {OrdA}
              /\ get_start_states(heap, dfa) = {OrdA}
              /\ get_final_states(heap, dfa) = {}
              /\ get_all_transitions(heap, dfa) = EmptyDict
              /\ get_alphabet(heap, dfa) = {}
              /\ \A w \in Words(Symbols, MaxWordLen) : ~Accepts(heap, dfa, w)

\* The conversion has returned for a source without start state that has
\* final states, transitions and a nonempty alphabet.
C9_Witness ==
    /\ Returned
    /\ NoStartState
    /\ get_final_states(heap, nfa) # {}
    /\ get_alphabet(heap, nfa) \ {Epsilon} # {}
    /\ get_all_transitions(heap, nfa) # EmptyDict

----------------------------------------------------------------------------
\* The subsets waiting on the worklist.
InQueue == {unmarked_states[i] : i \in 1..Len(unmarked_states)}

(* C10: during nfa_to_dfa no subset is put on the worklist twice nor taken *)
(* off it twice, the subsets known are subsets the construction reaches,   *)
(* and distinct subsets carry distinct marks; when the conversion returns, *)
(* every reachable subset was put once and taken once, whatever the order  *)
(* of discovery, the DFA has as many states as there are reachable         *)
(* subsets, and no add_state raised StateAlreadyExists.                    *)
C10_EachSubsetOnce ==
    /\ pc # "StateAlreadyExists"
    /\ pc \in {"loop", "done"} =>
          /\ DOMAIN puts = DOMAIN dfa_states
          /\ \A S \in DOMAIN puts : puts[S] = 1
          /\ \A S \in DOMAIN gets : gets[S] = 1
          /\ Cardinality(InQueue) = Len(unmarked_states)
          /\ InQueue \cap DOMAIN gets = {}
          /\ InQueue \cup DOMAIN gets = DOMAIN puts
          /\ DOMAIN dfa_states \subseteq ReachableSubsets(heap, nfa)
          /\ \A S, T \in DOMAIN dfa_states : S # T => dfa_states[S] # dfa_states[T]
    /\ Returned =>
          /\ DOMAIN gets = ReachableSubsets(heap, nfa)
          /\ get_states(heap, dfa) = {dfa_states[S] : S \in DOMAIN dfa_states}
          /\ Cardinality(get_states(heap, dfa))
                = Cardinality(ReachableSubsets(heap, nfa))

\* A returned conversion that found three subsets and reached one of them
\* again by another transition.
C10_Witness ==
    /\ Returned
    /\ Cardinality(DOMAIN dfa_states) >= 3
    /\ \E S, T \in DOMAIN dfa_transitions :
          \E x \in DOMAIN dfa_transitions[S], y \in DOMAIN dfa_transitions[T] :
             /\ <<S, x>> # <<T, y>>
             /\ dfa_transitions[S][x] = dfa_transitions[T][y]

====
